---- MODULE Spec2Model ----
(***************************************************************************)
(* Model of the date normaliser (sorter.parse_date), the record ranker     *)
(* (sorter.sort_books) and the viewer's search filter (app.py).            *)
(*                                                                         *)
(* A Python str is a sequence of one-character strings; a record (dict) is *)
(* a function from the field names it holds to such sequences.  The        *)
(* outcome of a call is [exc |-> "none", value |-> v] when it returns v    *)
(* and [exc |-> e] when it raises e.                                       *)
(***************************************************************************)
EXTENDS Integers, Sequences, FiniteSets, TLC

VARIABLES
    date_str,       \* parse_date: the argument
    year,           \* parse_date: the outcome of the call
    books,          \* sort_books: the argument
    ascending,      \* outcome of sort_books(books, reverse=False)
    descending,     \* outcome of sort_books(books, reverse=True)
    library,        \* app.py: the list loaded from OUTPUT_FILE
    search_query,   \* app.py: the text of the search bar
    sort_reverse,   \* app.py: the descending checkbox
    filtered,       \* app.py: `books` after the search filter
    sorted_books    \* app.py: outcome of the run (the list displayed)

vars == <<date_str, year, books, ascending, descending,
          library, search_query, sort_reverse, filtered, sorted_books>>

\* ------------------------------------------------------------ bounds

MaxDateLen == 4
MaxBooks == 3
MaxLibrary == 2

\* ------------------------------------------------------------ outcomes

Return(v) == [exc |-> "none", value |-> v]
Raise(e) == [exc |-> e]
Pending == [exc |-> "pending"]
Returned(o) == o.exc = "none"
Raised(o) == o.exc \notin {"none", "pending"}

\* ------------------------------------------------------------ str

UpperCase == <<"A","B","C","D","E","F","G","H","I","J","K","L","M",
               "N","O","P","Q","R","S","T","U","V","W","X","Y","Z">>
LowerCase == <<"a","b","c","d","e","f","g","h","i","j","k","l","m",
               "n","o","p","q","r","s","t","u","v","w","x","y","z">>
DigitChars == <<"0","1","2","3","4","5","6","7","8","9">>
Whitespace == {" "}

Range(f) == {f[i] : i \in DOMAIN f}

lower_char(c) ==
    IF \E i \in 1..26 : UpperCase[i] = c
    THEN LowerCase[CHOOSE i \in 1..26 : UpperCase[i] = c]
    ELSE c

\* str.lower()
lower(s) == [i \in 1..Len(s) |-> lower_char(s[i])]

\* str.strip()
RECURSIVE lstrip(_)
lstrip(s) == IF s # <<>> /\ Head(s) \in Whitespace THEN lstrip(Tail(s)) ELSE s

RECURSIVE rstrip(_)
rstrip(s) ==
    IF s # <<>> /\ s[Len(s)] \in Whitespace
    THEN rstrip(SubSeq(s, 1, Len(s) - 1))
    ELSE s

strip(s) == rstrip(lstrip(s))

\* `sub in s` for two str
Contains(sub, s) ==
    \E i \in 0..(Len(s) - Len(sub)) : SubSeq(s, i + 1, i + Len(sub)) = sub

IsDigit(c) == c \in Range(DigitChars)
DigitValue(c) == (CHOOSE i \in 1..10 : DigitChars[i] = c) - 1

\* int(s) for a str of ASCII digits; the empty str raises ValueError
RECURSIVE digits_value(_)
digits_value(s) ==
    IF s = <<>> THEN 0
    ELSE 10 * digits_value(SubSeq(s, 1, Len(s) - 1)) + DigitValue(s[Len(s)])

int(s) ==
    IF s # <<>> /\ \A i \in 1..Len(s) : IsDigit(s[i])
    THEN Return(digits_value(s))
    ELSE Raise("ValueError")

\* s[:n]
Slice(s, n) == SubSeq(s, 1, IF Len(s) < n THEN Len(s) ELSE n)

\* ------------------------------------------------------------ parse_date

DecadeDigits == 4
DecadeMidpoint == 5

\* "bc" in date_str or "b.c." in date_str
is_bc(s) == Contains(<<"b","c">>, s) \/ Contains(<<"b",".","c",".">>, s)

\* re.sub(r"[^0-9s]", "", date_str)
cleaned(s) == SelectSeq(s, LAMBDA c : IsDigit(c) \/ c = "s")

\* date_str.replace("s", "")
without_s(s) == SelectSeq(s, LAMBDA c : c # "s")

parse_date(text) ==
    IF text = <<>> THEN Return(0)
    ELSE LET s == lower(strip(text))
             token == cleaned(s)
         IN IF Contains(<<"s">>, token)
            THEN LET parsed == int(Slice(without_s(token), DecadeDigits))
                 IN IF Raised(parsed) THEN parsed
                    ELSE LET y == parsed.value + DecadeMidpoint
                         IN Return(IF is_bc(s) THEN -y ELSE y)
            ELSE LET parsed == int(token)
                 IN IF Raised(parsed) THEN Return(0)
                    ELSE Return(IF is_bc(s) THEN -parsed.value ELSE parsed.value)

\* ------------------------------------------------------------ dict

\* book.get(field, default)
get(book, field, default) ==
    IF field \in DOMAIN book THEN book[field] ELSE default

\* ------------------------------------------------------------ sorted

\* tuple comparison k1 < k2 of two (original, release) keys
KeyLessFirstOnly(k1, k2) == k1[1] < k2[1]
KeyLess(k1, k2) == k1[1] < k2[1] \/ (k1[1] = k2[1] /\ k1[2] < k2[2])

Reverse(s) == [i \in 1..Len(s) |-> s[Len(s) + 1 - i]]

\* One step of the stable insertion sort list.sort runs on short lists:
\* x goes before the first element whose key is greater than x's.
RECURSIVE InsertBeforeEqual(_, _)
InsertBeforeEqual(s, x) ==
    IF s = <<>> THEN <<x>>
    ELSE IF ~KeyLess(Head(s).key, x.key) THEN <<x>> \o s
    ELSE <<Head(s)>> \o InsertBeforeEqual(Tail(s), x)

RECURSIVE Insert(_, _)
Insert(s, x) ==
    IF s = <<>> THEN <<x>>
    ELSE IF KeyLess(x.key, Head(s).key) THEN <<x>> \o s
    ELSE <<Head(s)>> \o Insert(Tail(s), x)

RECURSIVE StableSort(_)
StableSort(s) ==
    IF s = <<>> THEN <<>>
    ELSE Insert(StableSort(SubSeq(s, 1, Len(s) - 1)), s[Len(s)])

\* sorted(items, key=..., reverse=...), the keys already computed.  With
\* reverse set, list.sort reverses the list, sorts it, and reverses the result.
sorted_ignoring_reverse(items, keys, reverse) ==
    LET decorated == [i \in 1..Len(items) |-> [key |-> keys[i], item |-> items[i]]]
        ordered == StableSort(decorated)
    IN [i \in 1..Len(ordered) |-> ordered[i].item]
sorted_then_flipped(items, keys, reverse) ==
    LET decorated == [i \in 1..Len(items) |-> [key |-> keys[i], item |-> items[i]]]
        ordered == IF reverse THEN Reverse(StableSort(decorated))
                   ELSE StableSort(decorated)
    IN [i \in 1..Len(ordered) |-> ordered[i].item]
sorted(items, keys, reverse) ==
    LET decorated == [i \in 1..Len(items) |-> [key |-> keys[i], item |-> items[i]]]
        ordered == IF reverse THEN Reverse(StableSort(Reverse(decorated)))
                   ELSE StableSort(decorated)
    IN [i \in 1..Len(ordered) |-> ordered[i].item]

\* ------------------------------------------------------------ sort_books

sort_key(book) ==
    LET orig_date == parse_date(get(book, "original_date", <<>>))
        rel_date == parse_date(get(book, "release_date", <<>>))
    IN IF Raised(orig_date) THEN orig_date
       ELSE IF Raised(rel_date) THEN rel_date
       ELSE Return(<<orig_date.value, rel_date.value>>)

sort_books(bs, reverse) ==
    LET keys == [i \in 1..Len(bs) |-> sort_key(bs[i])]
    IN IF \E i \in 1..Len(bs) : Raised(keys[i])
       THEN Raise("ValueError")
       ELSE Return(sorted(bs, [i \in 1..Len(bs) |-> keys[i].value], reverse))

\* ------------------------------------------------------------ app.py

\* the search filter: `if search_query:` and the list comprehension
search_filter_case_sensitive(bs, query) ==
    IF query # <<>>
    THEN SelectSeq(bs, LAMBDA b :
            \/ Contains(lower(query), get(b, "title", <<>>))
            \/ Contains(lower(query), get(b, "author", <<>>)))
    ELSE bs
search_filter(bs, query) ==
    IF query # <<>>
    THEN LET search_lower == lower(query)
         IN SelectSeq(bs, LAMBDA b :
                \/ Contains(search_lower, lower(get(b, "title", <<>>)))
                \/ Contains(search_lower, lower(get(b, "author", <<>>))))
    ELSE bs

NoMatchWarning == "No books match the search query."
NoBooksWarning == "No books found in the output file."
NoFileError == "Output file not found"

\* ------------------------------------------------------------ inputs

\* Characters of the enumerated date texts: digits, the decade letter, the
\* letters and punctuation of the era marker in both cases, whitespace.
DateAlphabet == {"1", "9", "s", "b", "c", "B", ".", " "}

StringsUpTo(alphabet, n) == UNION {[1..k -> alphabet] : k \in 0..n}

Date1963 == <<"1","9","6","3">>
Date80BC == <<"8","0"," ","B","C">>
Date1960s == <<"1","9","6","0","s">>
Date300sBC == <<"3","0","0","s"," ","B","C">>
DateCirca1200 == <<"c","i","r","c","a"," ","1","2","0","0">>
DateAugust1960 == <<"A","u","g","u","s","t"," ","1","9","6","0">>
Date80BdotCdot == <<"8","0"," ","B",".","C",".">>
Date80BdotSpaceCdot == <<"8","0"," ","B","."," ","C",".">>
Date60s1975 == <<"6","0","s"," ","1","9","7","5">>
Date12345s == <<"1","2","3","4","5","s">>
DateFirstCentury == <<"f","i","r","s","t"," ","c","e","n","t","u","r","y">>

DateExamples ==
    {Date1963, Date80BC, Date1960s, Date300sBC, DateCirca1200, DateAugust1960,
     Date80BdotCdot, Date80BdotSpaceCdot, Date60s1975, Date12345s,
     DateFirstCentury}

DateInputs == StringsUpTo(DateAlphabet, MaxDateLen) \cup DateExamples

Book(title, fields) == ("title" :> title) @@ fields

\* Records with distinct keys, with tied keys (fully, and on the original date
\* only), with missing date fields, and with a date parse_date raises on.
BookPool ==
    { Book(<<"A">>, "original_date" :> Date1963),
      Book(<<"B">>, "original_date" :> Date80BC @@ "release_date" :> Date1963),
      Book(<<"C">>, "original_date" :> Date1960s),
      Book(<<"D">>, "original_date" :> <<>>),
      Book(<<"E">>, <<>>),
      Book(<<"F">>, "original_date" :> Date1963 @@ "release_date" :> Date1960s),
      Book(<<"G">>, "original_date" :> Date80BC @@ "release_date" :> Date1963),
      Book(<<"H">>, "original_date" :> DateFirstCentury) }

\* original_date "1963", "80 BC", "1960s", "" in that order
ExampleBooks ==
    << [original_date |-> Date1963], [original_date |-> Date80BC],
       [original_date |-> Date1960s], [original_date |-> <<>>] >>

BookInputs == StringsUpTo(BookPool, MaxBooks) \cup {ExampleBooks}

Optional(field, values) == {<<>>} \cup {field :> v : v \in values}

LibraryPool ==
    { t @@ a @@ d :
        t \in Optional("title", {<<"A","b">>, <<"b">>}),
        a \in Optional("author", {<<"a","B">>}),
        d \in Optional("original_date", {Date80BC}) }

Queries == {<<>>, <<"a">>, <<"B">>, <<"A","B">>, <<"b","a">>}

\* ------------------------------------------------------------ state machine

NotLoaded == [exists |-> FALSE]
Loaded(bs) == [exists |-> TRUE, books |-> bs]

DateIdle == date_str = <<>> /\ year = Pending
RankIdle == books = <<>> /\ ascending = Pending /\ descending = Pending
AppIdle ==
    /\ library = NotLoaded
    /\ search_query = <<>>
    /\ sort_reverse = FALSE
    /\ filtered = <<>>
    /\ sorted_books = Pending

dateVars == <<date_str, year>>
rankVars == <<books, ascending, descending>>
appVars == <<library, search_query, sort_reverse, filtered, sorted_books>>

\* parse_date(date_str)
ParseDate ==
    /\ year = Pending
    /\ year' = parse_date(date_str)
    /\ UNCHANGED <<date_str, rankVars, appVars>>

\* sort_books(books, reverse=False)
RankAscending ==
    /\ ascending = Pending
    /\ ascending' = sort_books(books, FALSE)
    /\ UNCHANGED <<books, descending, dateVars, appVars>>

\* sort_books(books, reverse=True)
RankDescending ==
    /\ descending = Pending
    /\ descending' = sort_books(books, TRUE)
    /\ UNCHANGED <<books, ascending, dateVars, appVars>>

\* One run of the app.py script: load, filter, sort, display.
RunApp ==
    /\ sorted_books = Pending
    /\ IF ~library.exists
       THEN /\ filtered' = <<>>
            /\ sorted_books' = [exc |-> "none", value |-> <<>>, message |-> NoFileError]
       ELSE IF library.books = <<>>
       THEN /\ filtered' = <<>>
            /\ sorted_books' = [exc |-> "none", value |-> <<>>, message |-> NoBooksWarning]
       ELSE LET kept == search_filter(library.books, search_query)
            IN /\ filtered' = kept
               /\ sorted_books' =
                    IF kept = <<>>
                    THEN [exc |-> "none", value |-> <<>>, message |-> NoMatchWarning]
                    ELSE sort_books(kept, sort_reverse)
    /\ UNCHANGED <<library, search_query, sort_reverse, dateVars, rankVars>>

InitDate == date_str \in DateInputs /\ year = Pending /\ RankIdle /\ AppIdle
InitRank == books \in BookInputs /\ ascending = Pending /\ descending = Pending
            /\ DateIdle /\ AppIdle
InitApp ==
    /\ library \in {NotLoaded} \cup {Loaded(bs) : bs \in StringsUpTo(LibraryPool, MaxLibrary)}
    /\ search_query \in Queries
    /\ sort_reverse \in BOOLEAN
    /\ filtered = <<>>
    /\ sorted_books = Pending
    /\ DateIdle /\ RankIdle

NextDate == ParseDate
NextRank == RankAscending \/ RankDescending
NextApp == RunApp

SpecDate == InitDate /\ [][NextDate]_vars
SpecRank == InitRank /\ [][NextRank]_vars
SpecApp == InitApp /\ [][NextApp]_vars

Init == InitDate \/ InitRank \/ InitApp
Next == ParseDate \/ RankAscending \/ RankDescending \/ RunApp
Spec == Init /\ [][Next]_vars

\* ------------------------------------------------------------ claims

HasDigit(s) == \E i \in 1..Len(s) : IsDigit(s[i])

\* the cleaned token of a date text: digits and the letter "s" only
Token(text) == cleaned(lower(strip(text)))

\* C1: parse_date is total: every call returns an integer and none raises,
\* and when no digit remains after stripping the result is the sentinel 0.
C1_ParseDateTotal ==
    year # Pending =>
        /\ Returned(year)
        /\ (~HasDigit(Token(date_str)) => year.value = 0)

RECURSIVE DropLeadingS(_)
DropLeadingS(s) == IF s # <<>> /\ Head(s) = "s" THEN DropLeadingS(Tail(s)) ELSE s

RECURSIVE DigitsBeforeS(_)
DigitsBeforeS(s) ==
    IF s = <<>> \/ Head(s) = "s" THEN <<>> ELSE <<Head(s)>> \o DigitsBeforeS(Tail(s))

\* the digits the decade rule is said to take: at most the first four of
\* those that precede the "s", an "s" ahead of the digits set aside
ClaimedDecadeDigits(token) == Slice(DigitsBeforeS(DropLeadingS(token)), 4)

\* C7: when the cleaned token contains an "s", the result is the integer of
\* at most the first four digits preceding the "s", plus 5, with the era
\* sign; digits after the "s" do not change which digits are taken.
C7_DecadeTakesDigitsBeforeS ==
    (Returned(year) /\ date_str # <<>> /\ Contains(<<"s">>, Token(date_str))) =>
        LET taken == ClaimedDecadeDigits(Token(date_str))
            midpoint == digits_value(taken) + 5
        IN /\ taken # <<>>
           /\ year.value = IF is_bc(lower(strip(date_str))) THEN -midpoint ELSE midpoint

\* the spellings of the era marker the claim lists, in lower case
ClaimedEraMarkers ==
    { <<"b","c">>, <<"b",".","c",".">>, <<"b",".","c">>, <<"b","."," ","c",".">> }

HasEraMarker(text) == \E m \in ClaimedEraMarkers : Contains(m, lower(text))

\* C8: the year is negated exactly when the input holds the era marker "bc"
\* in any letter case, with or without periods inside it; without the marker
\* the year comes back unnegated.
C8_NegatedExactlyWithEraMarker ==
    Returned(year) =>
        IF HasEraMarker(date_str) THEN year.value <= 0 ELSE year.value >= 0

Count(s, x) == Cardinality({i \in 1..Len(s) : s[i] = x})

IsPermutation(s, t) ==
    /\ Len(s) = Len(t)
    /\ \A x \in Range(s) \cup Range(t) : Count(s, x) = Count(t, x)

\* C2: for every sequence of records and either direction, sort_books
\* returns a permutation of its input.
C2_RankReturnsPermutation ==
    /\ ascending # Pending =>
            Returned(ascending) /\ IsPermutation(ascending.value, books)
    /\ descending # Pending =>
            Returned(descending) /\ IsPermutation(descending.value, books)

\* the Sort Key of a record: (normalized original date, normalized release date)
SortKey(b) == sort_key(b).value

WithKey(s, k) == SelectSeq(s, LAMBDA b : SortKey(b) = k)

KeysOf(s) == {SortKey(s[i]) : i \in 1..Len(s)}

\* records with one Sort Key stand in `out` in the order they have in `inp`
TiesInInputOrder(inp, out) == \A k \in KeysOf(inp) : WithKey(out, k) = WithKey(inp, k)

HasDistinctTiedRecords(s) ==
    \E i, j \in 1..Len(s) : i < j /\ s[i] # s[j] /\ SortKey(s[i]) = SortKey(s[j])

\* C3: ascending rank is stable: records with identical Sort Keys keep
\* their input order in the output of sort_books(books, reverse=False).
C3_AscendingStable ==
    Returned(ascending) => TiesInInputOrder(books, ascending.value)

C3_Witness ==
    /\ Returned(ascending)
    /\ HasDistinctTiedRecords(books)
    /\ ascending.value # books

KeyLeq(k1, k2) == k1[1] < k2[1] \/ (k1[1] = k2[1] /\ k1[2] <= k2[2])

NonDecreasing(s) == \A i \in 1..(Len(s) - 1) : KeyLeq(SortKey(s[i]), SortKey(s[i + 1]))

MissingCountsAsZero(s) ==
    \A i \in 1..Len(s) :
        /\ "original_date" \notin DOMAIN s[i] => SortKey(s[i])[1] = 0
        /\ "release_date" \notin DOMAIN s[i] => SortKey(s[i])[2] = 0

\* "80 BC", "", "1963", "1960s"
ExampleRanked ==
    << [original_date |-> Date80BC], [original_date |-> <<>>],
       [original_date |-> Date1963], [original_date |-> Date1960s] >>

\* C4: in the output of ascending rank the Sort Keys are non-decreasing
\* under lexicographic pair comparison, a missing date field counting as 0;
\* the records dated "1963", "80 BC", "1960s", "" come out as
\* "80 BC", "", "1963", "1960s".
C4_AscendingNonDecreasing ==
    Returned(ascending) =>
        /\ NonDecreasing(ascending.value)
        /\ MissingCountsAsZero(books)
        /\ (books = ExampleBooks => ascending.value = ExampleRanked)

C4_Witness ==
    /\ Returned(ascending)
    /\ ascending.value # books
    /\ \E i \in 1..(Len(books) - 1) :
            /\ SortKey(ascending.value[i])[1] = SortKey(ascending.value[i + 1])[1]
            /\ SortKey(ascending.value[i])[2] < SortKey(ascending.value[i + 1])[2]
    /\ \E i \in 1..Len(books) : "original_date" \notin DOMAIN books[i]

NoTies(s) == \A i, j \in 1..Len(s) : i # j => SortKey(s[i]) # SortKey(s[j])

\* C6: when no two records have the same Sort Key, the descending rank is
\* the reverse of the ascending rank.
C6_DescendingReversesWithoutTies ==
    (Returned(ascending) /\ Returned(descending) /\ NoTies(books)) =>
        descending.value = Reverse(ascending.value)

C6_Witness ==
    /\ Returned(ascending)
    /\ Returned(descending)
    /\ NoTies(books)
    /\ Len(books) >= 3
    /\ ascending.value # books
    /\ descending.value # books

\* C9 as stated: for every input, ties included, the descending rank is the
\* stable ascending result reversed end to end.
C9_DescendingIsAscendingFlipped ==
    (Returned(ascending) /\ Returned(descending)) =>
        descending.value = Reverse(ascending.value)

NegatedKey(k) == <<-k[1], -k[2]>>

\* the stable sort of the records by their negated Sort Keys
NegateAndStableSort(s) ==
    LET decorated == [i \in 1..Len(s) |-> [key |-> NegatedKey(SortKey(s[i])), item |-> s[i]]]
        ordered == StableSort(decorated)
    IN [i \in 1..Len(ordered) |-> ordered[i].item]

\* C9, amended: for every input, ties included, the descending rank is the
\* result of a stable sort by the negated Sort Key (tied records keep their
\* input order), not the stable ascending result reversed end to end.
C9_DescendingIsNegateAndStableSort ==
    Returned(descending) => descending.value = NegateAndStableSort(books)

C9_Witness ==
    /\ Returned(ascending)
    /\ Returned(descending)
    /\ HasDistinctTiedRecords(books)
    /\ descending.value # Reverse(ascending.value)

\* C10: in descending rank, records with identical Sort Keys keep their
\* input order in the output of sort_books(books, reverse=True).
C10_DescendingTiesInInputOrder ==
    Returned(descending) => TiesInInputOrder(books, descending.value)

C10_Witness ==
    /\ Returned(descending)
    /\ HasDistinctTiedRecords(books)
    /\ descending.value # books
    /\ ~NoTies(books)
    /\ Cardinality(KeysOf(books)) >= 2

\* the record matches the query: the lowercased query is a substring of the
\* lowercased title or of the lowercased author, an absent field being ""
Matches(b, query) ==
    \/ Contains(lower(query), lower(IF "title" \in DOMAIN b THEN b["title"] ELSE <<>>))
    \/ Contains(lower(query), lower(IF "author" \in DOMAIN b THEN b["author"] ELSE <<>>))

MissingBoth(b) == "title" \notin DOMAIN b /\ "author" \notin DOMAIN b

\* C5: the filter returns, in input order, exactly the records whose
\* lowercased title or author contains the lowercased query; a record
\* missing both fields matches only the empty query, and the empty query
\* returns the whole input unchanged.
C5_FilterKeepsExactlyMatches ==
    (sorted_books # Pending /\ library.exists) =>
        /\ filtered = SelectSeq(library.books, LAMBDA b : Matches(b, search_query))
        /\ (search_query = <<>> => filtered = library.books)
        /\ \A i \in 1..Len(library.books) :
                MissingBoth(library.books[i]) =>
                    (library.books[i] \in Range(filtered) <=> search_query = <<>>)

C5_Witness ==
    /\ sorted_books # Pending
    /\ library.exists
    /\ search_query = <<"A","B">>
    /\ filtered # <<>>
    /\ Len(filtered) < Len(library.books)
    /\ \E i \in 1..Len(library.books) : MissingBoth(library.books[i])

====
